---- MODULE Spec2Model ----
(***************************************************************************)
(* Model of the Slack relay of src/slack_bot/simple_bot.py: ask_agent      *)
(* (request, line-by-line processing of the event stream, error result),   *)
(* the progress callbacks of the chat handlers, and the chat handlers'     *)
(* use of the module-level thread_context store.                           *)
(*                                                                         *)
(* Text (answers, questions, status messages) is a sequence of tokens, so  *)
(* that += is \o.  A JSON value is a record [j |-> <JSON type>, ...]; an   *)
(* object carries its members in v, and "k in data" is k \in DOMAIN v.     *)
(***************************************************************************)
EXTENDS Integers, Sequences, FiniteSets, TLC

VARIABLES
    st,             \* ask_agent's frame: phase, event_type, result, last_status, callback closure
    now,            \* time.time(), in whole seconds since start_time
    obs,            \* observer of the stream: what the lines consumed so far carried
    thread_context, \* the module-level dict thread_ts -> list object
    heap,           \* the list objects: reference -> list of messages
    procs,          \* the handler invocations running in the listener pool
    trips,          \* number of round trips started
    log,            \* observer of the handlers: what each thread was asked and answered
    deploy          \* a run of deploy_acme_intelligence.py: position, commands run, files

vars == <<st, now, obs, thread_context, heap, procs, trips, log, deploy>>

\* the deployment script before it is launched
NoExit == -1
Undeployed ==
    [pc |-> "off", has_dir |-> FALSE, files |-> {}, ran |-> <<>>, failed |-> {},
     exit |-> NoExit]

\* ------------------------------------------------------------------ bounds
MaxLines == 6       \* lines of one stream
MaxTime == 6        \* seconds a round trip is followed for
MaxTrips == 2       \* round trips under concurrent handlers
MaxSeqTrips == 6    \* round trips of the sequential runs

\* --------------------------------------------------------------- constants
HistoryCap == 10            \* conversation_history[-10:]
ThrottleSeconds == 5        \* now - last_update >= 5.0

NoneStr == "<None>"         \* Python None where the other values are strings
NoneJson == [j |-> "null"]  \* Python None where the other values are JSON values
Unset == "<unbound>"        \* a local that no statement has assigned yet

\* AGENTS.get(agent, AGENTS["intelligence"])
AgentKeys == {"intelligence", "contracts", "perf"}

AGENTS(k) ==
    CASE k = "intelligence" -> "ACME_INTELLIGENCE_AGENT"
      [] k = "contracts" -> "ACME_CONTRACTS_AGENT"
      [] k = "perf" -> "DATA_ENGINEER_ASSISTANT"

\* AGENTS.get(agent, agent): an unknown selector is used as the agent's name
AgentNameVerbatim(agent) == IF agent \in AgentKeys THEN AGENTS(agent) ELSE agent

\* agent_name = AGENTS.get(agent, AGENTS["intelligence"])
AgentName(agent) == IF agent \in AgentKeys THEN AGENTS(agent) ELSE AGENTS("intelligence")

\* ------------------------------------------------------------- JSON values
Obj(rec) == [j |-> "object", v |-> rec]
Arr(seq) == [j |-> "array", v |-> seq]
Num == [j |-> "number"]
Invalid == [j |-> "invalid"]    \* text json.loads raises on

\* "k in data": membership for a dict, element test for a list (no list of the
\* model holds a bare key string), TypeError for a number or null.
InRaises(data) == data.j \in {"number", "null"}
Has(data, k) == data.j = "object" /\ k \in DOMAIN data.v
\* data.get(k): AttributeError unless data is a dict
GetRaises(data) == data.j # "object"
Get(data, k, default) == IF k \in DOMAIN data.v THEN data.v[k] ELSE default

\* ----------------------------------------------------------- stream values
Frags == {<<"x">>, <<"y">>}

RS1 == [j |-> "object", data |-> <<1>>, rowType |-> <<"A">>]
RS2 == [j |-> "object", data |-> <<2, 3>>, rowType |-> <<"B", "C">>]
ResultSets == {RS1, RS2}
\* a result_set that is a list, not an object: it has no .get
RSList == [j |-> "array", data |-> <<>>, rowType |-> <<>>]

\* chart_spec strings and what json.loads makes of them
ChartStrs == {"{mark:bar}", "{mark:line}", "[1]", "{not json"}
JsonParses(s) == s \in {"{mark:bar}", "{mark:line}", "[1]"}
JsonLoads(s) ==
    CASE s = "{mark:bar}" -> Obj([mark |-> "bar"])
      [] s = "{mark:line}" -> Obj([mark |-> "line"])
      [] s = "[1]" -> Arr(<<1>>)

AnalystTool == "cortex_analyst_text_to_sql"
SqlKey == "snow.ai.observability.agent.tool.cortex_analyst.sql_query"
\* 'cortex' in str(type).lower()
IsCortex(type) == type \in {"cortex_analyst_text_to_sql", "cortex_search"}

EventTypes == {"metadata", "response.text.delta", "response.thinking.delta",
               "response.tool_result", "response.table", "response.chart",
               "execution_trace", "response.status"}

\* status messages, as their words; <<>> is the empty or all-blank message
StatusMsgs == {<<"Planning...">>, <<"Planning", "step", "2...">>,
               <<"Planning", "step", "3...">>, <<"Running", "query">>,
               <<"Now", "planning">>, <<>>}

\* str.lower() of a word
Lower(w) ==
    CASE w = "Planning..." -> "planning..."
      [] w = "Planning" -> "planning"
      [] w = "Running" -> "running"
      [] w = "Now" -> "now"
      [] OTHER -> w

\* any(m in status_key for m in key_milestones)
key_milestones == {"planning", "executing", "generating", "forming"}
IsMilestoneKey(status_key) ==
    status_key \in key_milestones \cup {"planning...", "executing...", "generating...", "forming..."}

TextPayloads == {Obj([text |-> f]) : f \in Frags}
TablePayloads == {Obj([result_set |-> rs]) : rs \in ResultSets}
ChartPayloads ==
    {Obj([chart_spec |-> c, tool_use_id |-> "tu1", content_index |-> 0]) : c \in ChartStrs}
MetaPayloads == {Obj([message_id |-> "m1", thread_id |-> "T1"]), Obj([thread_id |-> "T2"])}
ToolPayloads ==
    {Obj([type |-> AnalystTool, content |-> <<[json |-> [sql |-> "SQL1", result_set |-> RS1]]>>]),
     Obj([type |-> AnalystTool, content |-> <<[json |-> [sql |-> "SQL2"]]>>]),
     Obj([type |-> "cortex_search"])}
TracePayloads ==
    {Arr(<<[parses |-> TRUE, attributes |-> <<[key |-> SqlKey, stringValue |-> "SQL3"]>>]>>)}
StatusPayloads(msgs) == {Obj([status |-> "s", message |-> m]) : m \in msgs}

\* ------------------------------------------------------------- the result
NewResult ==
    [answer |-> <<>>, thinking |-> <<>>, tools_used |-> <<>>, raw_events |-> 0,
     sql |-> NoneStr, thread_id |-> NoneStr, message_id |-> NoneStr,
     result_set |-> NoneJson, column_names |-> <<>>, chart_specs |-> <<>>]

ErrorText == <<"Sorry, I encountered an error">>
ErrorResult == [answer |-> ErrorText, thinking |-> <<>>, tools_used |-> <<>>]

\* result.get(k)
ResultGet(result, k, default) == IF k \in DOMAIN result THEN result[k] ELSE default


\* --------------------------------------------------- the progress callback
NoneMsg == <<NoneStr>>      \* last_status = None

\* a callback that shows again, at once, a status whose first word it has shown
SmartProgressRepeatsSeen(s, status, t) ==
    IF status = <<>>
    THEN [s EXCEPT !.raised = TRUE]
    ELSE LET status_key == Lower(Head(status))
             is_milestone == IsMilestoneKey(status_key)
             should_update == \/ is_milestone
                              \/ t - s.last_update >= ThrottleSeconds
                              \/ status_key \in s.seen_statuses
         IN  IF should_update
             THEN [s EXCEPT !.seen_statuses = @ \cup {status_key},
                            !.last_update = t,
                            !.chat_updates = Append(@, status)]
             ELSE s

\* show_smart_progress / update_progress, called at time t.  The closure's
\* state is last_update and seen_statuses; chat_updates lists the statuses
\* handed to app.client.chat_update (whose own failure is caught and logged).
SmartProgress(s, status, t) ==
    IF status = <<>>
    THEN [s EXCEPT !.raised = TRUE]                 \* status.lower().split()[0]
    ELSE LET status_key == Lower(Head(status))
             is_milestone == IsMilestoneKey(status_key)
             should_update == is_milestone \/ (t - s.last_update >= ThrottleSeconds)
         IN  IF status_key \in s.seen_statuses /\ ~should_update
             THEN s
             ELSE IF should_update
                  THEN [s EXCEPT !.seen_statuses = @ \cup {status_key},
                                 !.last_update = t,
                                 !.chat_updates = Append(@, status)]
                  ELSE s

\* ------------------------------------------- ask_agent: one data line's try
\* Each block is a run of statements of the try body; a block that raises
\* sets raised and the blocks after it are skipped (except: pass).

\* MetadataBlock of a loop that binds event_type before its first line: the
\* comparison does not raise and the blocks after it run
MetadataBlockBound(s, data) ==
    IF s.event_type # "metadata" THEN s
    ELSE IF InRaises(data) THEN [s EXCEPT !.raised = TRUE]
    ELSE LET s1 == IF Has(data, "message_id")
                   THEN [s EXCEPT !.result.message_id = data.v.message_id]
                   ELSE s
         IN  IF Has(data, "thread_id")
             THEN [s1 EXCEPT !.result.thread_id = data.v.thread_id]
             ELSE s1

\* if event_type == 'metadata': ...
MetadataBlock(s, data) ==
    IF s.event_type = Unset THEN [s EXCEPT !.raised = TRUE]     \* NameError
    ELSE IF s.event_type # "metadata" THEN s
    ELSE IF InRaises(data) THEN [s EXCEPT !.raised = TRUE]
    ELSE LET s1 == IF Has(data, "message_id")
                   THEN [s EXCEPT !.result.message_id = data.v.message_id]
                   ELSE s
         IN  IF Has(data, "thread_id")
             THEN [s1 EXCEPT !.result.thread_id = data.v.thread_id]
             ELSE s1

\* the entry appended to result["chart_specs"]
ChartEntry(data) ==
    [spec |-> JsonLoads(data.v.chart_spec),
     tool_use_id |-> Get(data, "tool_use_id", NoneStr),
     content_index |-> Get(data, "content_index", -1)]

\* ChartBlock with the entry appended before the parse: a chart_spec that does
\* not parse leaves an entry without a spec
ChartBlockAppendsFirst(s, data) ==
    IF s.raised \/ s.event_type # "response.chart" THEN s
    ELSE IF GetRaises(data) THEN [s EXCEPT !.raised = TRUE]
    ELSE IF ~Has(data, "chart_spec") \/ data.v.chart_spec = "" THEN s
    ELSE IF ~JsonParses(data.v.chart_spec)
         THEN [s EXCEPT !.result.chart_specs =
                          Append(@, [spec |-> NoneJson,
                                     tool_use_id |-> Get(data, "tool_use_id", NoneStr),
                                     content_index |-> Get(data, "content_index", -1)])]
    ELSE [s EXCEPT !.result.chart_specs = Append(@, ChartEntry(data))]

\* if event_type == 'response.chart': ...
ChartBlock(s, data) ==
    IF s.raised \/ s.event_type # "response.chart" THEN s
    ELSE IF GetRaises(data) THEN [s EXCEPT !.raised = TRUE]
    ELSE IF ~Has(data, "chart_spec") \/ data.v.chart_spec = "" THEN s
    ELSE IF ~JsonParses(data.v.chart_spec) THEN s               \* except json.JSONDecodeError
    ELSE LET s1 == [s EXCEPT !.result.chart_specs = Append(@, ChartEntry(data))]
         IN  IF JsonLoads(data.v.chart_spec).j = "object"
             THEN s1
             ELSE [s1 EXCEPT !.raised = TRUE]                   \* chart_spec.get('mark', ...)

\* column_names = [col['name'] for col in row_types]
ColumnNames(rs) == rs.rowType

\* result["result_set"] = rs, then the reads of rs that can raise, then column_names
SetResultSet(s, rs) ==
    LET s1 == [s EXCEPT !.result.result_set = rs]
    IN  IF rs.j # "object"
        THEN [s1 EXCEPT !.raised = TRUE]
        ELSE [s1 EXCEPT !.result.column_names = ColumnNames(rs)]

\* ToolItem without "and not result.get('sql')": every query replaces the last
ToolItemOverwritesSql(s, item) ==
    IF s.raised \/ "json" \notin DOMAIN item THEN s
    ELSE LET json_data == item.json
             s1 == IF "sql" \in DOMAIN json_data
                   THEN [s EXCEPT !.result.sql = json_data.sql]
                   ELSE s
         IN  IF "result_set" \in DOMAIN json_data
             THEN SetResultSet(s1, json_data.result_set)
             ELSE s1

\* the body of "for item in content" for one item
ToolItem(s, item) ==
    IF s.raised \/ "json" \notin DOMAIN item THEN s
    ELSE LET json_data == item.json
             s1 == IF "sql" \in DOMAIN json_data /\ s.result.sql \in {NoneStr, ""}
                   THEN [s EXCEPT !.result.sql = json_data.sql]
                   ELSE s
         IN  IF "result_set" \in DOMAIN json_data
             THEN SetResultSet(s1, json_data.result_set)
             ELSE s1

RECURSIVE ToolItems(_, _)
ToolItems(s, content) ==
    IF content = <<>> THEN s
    ELSE ToolItems(ToolItem(s, Head(content)), Tail(content))

\* if event_type == 'response.tool_result': ...
ToolResultBlock(s, data) ==
    IF s.raised \/ s.event_type # "response.tool_result" THEN s
    ELSE IF GetRaises(data) THEN [s EXCEPT !.raised = TRUE]
    ELSE IF Get(data, "type", NoneStr) = AnalystTool \/ Get(data, "tool_type", NoneStr) = AnalystTool
         THEN ToolItems(s, Get(data, "content", <<>>))
         ELSE s

\* the sql a trace item carries: the attribute with the analyst's key
RECURSIVE TraceAttrs(_, _)
TraceAttrs(s, attrs) ==
    IF attrs = <<>> THEN s
    ELSE LET attr == Head(attrs)
             s1 == IF attr.key = SqlKey /\ attr.stringValue # "" /\ s.result.sql \in {NoneStr, ""}
                   THEN [s EXCEPT !.result.sql = attr.stringValue]
                   ELSE s
         IN  TraceAttrs(s1, Tail(attrs))

RECURSIVE TraceItems(_, _)
TraceItems(s, items) ==
    IF items = <<>> THEN s
    ELSE LET item == Head(items)
             s1 == IF item.parses THEN TraceAttrs(s, item.attributes) ELSE s   \* except: pass
         IN  TraceItems(s1, Tail(items))

\* if event_type == 'execution_trace': ...
TraceBlock(s, data) ==
    IF s.raised \/ s.event_type # "execution_trace" THEN s
    ELSE IF data.j = "array" THEN TraceItems(s, data.v) ELSE s

\* ProgressBlock outside the line's try: what the callback raises reaches the
\* outer except of ask_agent
ProgressBlockUnguarded(s, data, t) ==
    IF s.raised THEN s
    ELSE IF InRaises(data) THEN [s EXCEPT !.raised = TRUE]
    ELSE IF ~(Has(data, "status") /\ Has(data, "message")) THEN s
    ELSE LET status_msg == data.v.message
         IN  IF status_msg # s.last_status /\ s.cb # "none"
             THEN LET s1 == SmartProgress(s, status_msg, t)
                  IN  IF s1.raised
                      THEN [s1 EXCEPT !.phase = "failed", !.result = ErrorResult]
                      ELSE [s1 EXCEPT !.last_status = status_msg]
             ELSE s

\* if 'status' in data and 'message' in data: ...
ProgressBlock(s, data, t) ==
    IF s.raised THEN s
    ELSE IF InRaises(data) THEN [s EXCEPT !.raised = TRUE]
    ELSE IF ~(Has(data, "status") /\ Has(data, "message")) THEN s
    ELSE LET status_msg == data.v.message
         IN  IF status_msg # s.last_status /\ s.cb # "none"
             THEN LET s1 == SmartProgress(s, status_msg, t)
                  IN  IF s1.raised THEN s1 ELSE [s1 EXCEPT !.last_status = status_msg]
             ELSE s

\* if event_type == 'response.table': ...
TableBlock(s, data) ==
    IF s.raised \/ s.event_type # "response.table" THEN s
    ELSE IF Has(data, "result_set") THEN SetResultSet(s, data.v.result_set) ELSE s

\* TextBlock with = for +=: the answer is the last fragment
TextBlockOverwrites(s, data) ==
    IF s.raised THEN s
    ELSE IF Has(data, "text") /\ s.event_type = "response.text.delta"
         THEN [s EXCEPT !.result.answer = data.v.text]
    ELSE IF Has(data, "text") /\ s.event_type = "response.thinking.delta"
         THEN [s EXCEPT !.result.thinking = data.v.text]
    ELSE s

\* if 'text' in data and event_type == 'response.text.delta': ... elif ... elif ...
TextBlock(s, data) ==
    IF s.raised THEN s
    ELSE IF Has(data, "text") /\ s.event_type = "response.text.delta"
         THEN [s EXCEPT !.result.answer = @ \o data.v.text]
    ELSE IF Has(data, "text") /\ s.event_type = "response.thinking.delta"
         THEN [s EXCEPT !.result.thinking = @ \o data.v.text]
    ELSE IF Has(data, "type") /\ IsCortex(data.v.type)
         THEN LET tool_name == data.v.type
              IN  IF \E i \in DOMAIN s.result.tools_used : s.result.tools_used[i] = tool_name
                  THEN s
                  ELSE [s EXCEPT !.result.tools_used = Append(@, tool_name)]
    ELSE s

\* DataLine without the try around json.loads: a line that is not JSON ends
\* the loop in the outer except
DataLineUnguarded(s, data, t) ==
    IF data = Invalid THEN [s EXCEPT !.phase = "failed", !.result = ErrorResult]
    ELSE LET s0 == [s EXCEPT !.result.raw_events = @ + 1]
             s7 == TextBlock(TableBlock(ProgressBlock(TraceBlock(ToolResultBlock(
                       ChartBlock(MetadataBlock(s0, data), data), data), data), data, t), data), data)
         IN  [s7 EXCEPT !.raised = FALSE]

\* elif line.startswith('data: '): try: ... except: pass
DataLine(s, data, t) ==
    IF data = Invalid THEN s                                    \* json.loads raises
    ELSE LET s0 == [s EXCEPT !.result.raw_events = @ + 1]
             s1 == MetadataBlock(s0, data)
             s2 == ChartBlock(s1, data)
             s3 == ToolResultBlock(s2, data)
             s4 == TraceBlock(s3, data)
             s5 == ProgressBlock(s4, data, t)
             s6 == TableBlock(s5, data)
             s7 == TextBlock(s6, data)
         IN  [s7 EXCEPT !.raised = FALSE]

\* A line of the stream: [kind |-> "event", val |-> name], [kind |-> "data",
\* val |-> JSON value or Invalid], or [kind |-> "other"] (blank, comment, ...)
EventLineOf(e) == [kind |-> "event", val |-> e]
DataLineOf(d) == [kind |-> "data", val |-> d]
OtherLine == [kind |-> "other"]

\* a loop in which an event type holds for the one data line after it
ProcessLineTypeOnce(s, line, t) ==
    CASE line.kind = "event" -> [s EXCEPT !.event_type = line.val]
      [] line.kind = "data" -> [DataLine(s, line.val, t) EXCEPT !.event_type = "message"]
      [] OTHER -> s

\* the body of "for line in response.iter_lines(...)"
ProcessLine(s, line, t) ==
    CASE line.kind = "event" -> [s EXCEPT !.event_type = line.val]
      [] line.kind = "data" -> DataLine(s, line.val, t)
      [] OTHER -> s


\* ------------------------------------------------- ask_agent as a process
\* The frame of one ask_agent call.  phase follows the call: "idle" (not yet
\* posted), "connecting" (inside requests.post), "streaming" (inside the for
\* loop), "complete" (returned result), "failed" (returned the error dict).
\* cb is the progress_callback argument: "none" or "smart" (a handler's closure,
\* whose last_update and seen_statuses live here too; start_time is second 0).
NewFrame(cb) ==
    [phase |-> "idle", cb |-> cb, event_type |-> Unset, result |-> NewResult,
     last_status |-> NoneMsg, last_update |-> 0, seen_statuses |-> {},
     chat_updates |-> <<>>, raised |-> FALSE]

Callbacks == {"none", "smart"}

\* What the lines consumed so far carried, read off the lines alone:
\*   n       the number of lines consumed
\*   etype   the name on the most recent "event: " line
\*   deltas  the text fragments of the response.text.delta data lines, joined
\*   tables  the result sets of the events that carried one, with their source
\*           and the length deltas had when they arrived
\*   charts  an entry per response.chart data line whose chart_spec parses
\*   badcharts  the number of response.chart data lines whose chart_spec does not parse
\*   dropped the length deltas had at each discarded line, in arrival order
\*   shadow  the frame of a second run that is never given a discarded line
\*   nstatus the number of data lines that carried a status and a message
\*   status  the message of the most recent of them
\*   sql1    the first non-empty query an analyst tool result or a trace carried
NewObs(cb) ==
    [n |-> 0, etype |-> Unset, deltas |-> <<>>, tables |-> <<>>, charts |-> <<>>,
     badcharts |-> 0, dropped |-> <<>>, nstatus |-> 0, status |-> NoneMsg, sql1 |-> NoneStr,
     shadow |-> [NewFrame(cb) EXCEPT !.phase = "streaming"]]

Discarded(line) == line.kind = "other" \/ (line.kind = "data" /\ line.val = Invalid)

CarriesTable(item) == "json" \in DOMAIN item /\ "result_set" \in DOMAIN item.json

ToolTables(data, at) ==
    IF (\E k \in {"type", "tool_type"} : Has(data, k) /\ data.v[k] = AnalystTool)
         /\ Has(data, "content")
    THEN LET c == SelectSeq(data.v.content, CarriesTable)
         IN  [i \in 1..Len(c) |-> [src |-> "tool", rs |-> c[i].json.result_set, at |-> at]]
    ELSE <<>>

\* the non-empty queries a payload carries under the event type named last
ItemQueries(item) ==
    IF "json" \in DOMAIN item /\ "sql" \in DOMAIN item.json /\ item.json.sql # ""
    THEN <<item.json.sql>> ELSE <<>>

AttrQueries(attr) ==
    IF attr.key = SqlKey /\ attr.stringValue # "" THEN <<attr.stringValue>> ELSE <<>>

RECURSIVE ContentQueries(_)
ContentQueries(content) ==
    IF content = <<>> THEN <<>>
    ELSE ItemQueries(Head(content)) \o ContentQueries(Tail(content))

RECURSIVE AttrsQueries(_)
AttrsQueries(attrs) ==
    IF attrs = <<>> THEN <<>>
    ELSE AttrQueries(Head(attrs)) \o AttrsQueries(Tail(attrs))

TraceItemQueries(item) ==
    IF item.parses THEN AttrsQueries(item.attributes) ELSE <<>>

RECURSIVE TraceQueries(_)
TraceQueries(items) ==
    IF items = <<>> THEN <<>>
    ELSE TraceItemQueries(Head(items)) \o TraceQueries(Tail(items))

Queries(etype, data) ==
    IF etype = "response.tool_result" /\ data.j = "object"
         /\ (\E k \in {"type", "tool_type"} : Has(data, k) /\ data.v[k] = AnalystTool)
         /\ Has(data, "content")
    THEN ContentQueries(data.v.content)
    ELSE IF etype = "execution_trace" /\ data.j = "array"
    THEN TraceQueries(data.v)
    ELSE <<>>

CarriesStatus(line) ==
    line.kind = "data" /\ Has(line.val, "status") /\ Has(line.val, "message")

Observe(o, line, t) ==
    LET o0 == [o EXCEPT !.n = @ + 1,
                        !.dropped = IF Discarded(line) THEN Append(@, Len(o.deltas)) ELSE @,
                        !.shadow = IF Discarded(line) THEN @ ELSE ProcessLine(@, line, t)]
        q == IF line.kind = "data" /\ line.val # Invalid THEN Queries(o.etype, line.val) ELSE <<>>
        o00 == IF o.sql1 = NoneStr /\ q # <<>> THEN [o0 EXCEPT !.sql1 = q[1]] ELSE o0
        o1 == IF CarriesStatus(line) /\ o.etype # Unset
              THEN [o00 EXCEPT !.nstatus = @ + 1, !.status = line.val.v.message]
              ELSE o00
    IN  IF line.kind = "event" THEN [o1 EXCEPT !.etype = line.val]
        ELSE IF line.kind # "data" \/ line.val = Invalid THEN o1
        ELSE LET data == line.val
             IN  CASE o.etype = "response.text.delta" /\ Has(data, "text") ->
                        [o1 EXCEPT !.deltas = @ \o data.v.text]
                   [] o.etype = "response.table" /\ Has(data, "result_set") ->
                        [o1 EXCEPT !.tables = Append(@, [src |-> "table", rs |-> data.v.result_set,
                                                         at |-> Len(o.deltas)])]
                   [] o.etype = "response.tool_result" ->
                        [o1 EXCEPT !.tables = @ \o ToolTables(data, Len(o.deltas))]
                   [] o.etype = "response.chart" /\ Has(data, "chart_spec")
                         /\ JsonParses(data.v.chart_spec) ->
                        [o1 EXCEPT !.charts = Append(@, ChartEntry(data))]
                   [] o.etype = "response.chart" /\ Has(data, "chart_spec")
                         /\ ~JsonParses(data.v.chart_spec) ->
                        [o1 EXCEPT !.badcharts = @ + 1]
                   [] OTHER -> o1

chatIdle == <<thread_context, heap, procs, trips, log, deploy>>

\* requests.post(url, json=payload, headers=headers, stream=True, timeout=60) is entered
Post ==
    /\ st.phase = "idle"
    /\ st' = [st EXCEPT !.phase = "connecting"]
    /\ UNCHANGED <<now, obs, chatIdle>>

\* requests.post returned and raise_for_status() passed: result = {...}; last_status = None
ResponseOk ==
    /\ st.phase = "connecting"
    /\ st' = [st EXCEPT !.phase = "streaming", !.result = NewResult, !.last_status = NoneMsg]
    /\ UNCHANGED <<now, obs, chatIdle>>

\* a failed request that is issued again
PostFailsRetries ==
    /\ st.phase = "connecting"
    /\ st' = [st EXCEPT !.phase = "idle"]
    /\ UNCHANGED <<now, obs, chatIdle>>

\* requests.post or raise_for_status() raised: except Exception -> the error dict
PostFails ==
    /\ st.phase = "connecting"
    /\ st' = [st EXCEPT !.phase = "failed", !.result = ErrorResult]
    /\ UNCHANGED <<now, obs, chatIdle>>

\* one iteration of the for loop, on the line the transport delivered
Consume(line) ==
    /\ st.phase = "streaming"
    /\ obs.n < MaxLines
    /\ st' = ProcessLine(st, line, now)
    /\ obs' = Observe(obs, line, now)
    /\ UNCHANGED <<now, chatIdle>>

EventLine(e) == Consume(EventLineOf(e))
DataLn(data) == Consume(DataLineOf(data))
BadDataLine == Consume(DataLineOf(Invalid))
BlankLine == Consume(OtherLine)

\* the transport closed the stream: return result
StreamEnd ==
    /\ st.phase = "streaming"
    /\ st' = [st EXCEPT !.phase = "complete"]
    /\ UNCHANGED <<now, obs, chatIdle>>

\* the loop without its except clause: the exception leaves ask_agent
StreamFailsPropagates ==
    /\ st.phase = "streaming"
    /\ st' = [st EXCEPT !.phase = "raised"]
    /\ UNCHANGED <<now, obs, chatIdle>>

\* iter_lines raised (connection reset, read timeout): except Exception -> the error dict
StreamFails ==
    /\ st.phase = "streaming"
    /\ st' = [st EXCEPT !.phase = "failed", !.result = ErrorResult]
    /\ UNCHANGED <<now, obs, chatIdle>>

\* a second passes
Tick ==
    /\ st.phase = "streaming"
    /\ now < MaxTime
    /\ now' = now + 1
    /\ UNCHANGED <<st, obs, chatIdle>>

\* ------------------------------------------------------- the chat handlers
Threads == {"t1", "t2"}     \* Slack timestamps that name a thread
Workers == {"w1", "w2"}     \* the listener pool's threads
EmptyMap == [x \in {} |-> x]

\* {"role": ..., "content": [{"type": "text", "text": ...}]}
UserMsg(text) == [role |-> "user", text |-> text]
AssistantMsg(text) == [role |-> "assistant", text |-> text]

\* the text of the n-th message received
Question(n) == <<"q", ToString(n)>>

\* seq[-n:]
LastN(seq, n) == IF Len(seq) <= n THEN seq ELSE SubSeq(seq, Len(seq) - n + 1, Len(seq))

\* seq[:n], the slice from the wrong end
FirstN(seq, n) == IF Len(seq) <= n THEN seq ELSE SubSeq(seq, 1, n)

TruncateFromEnd(history) == FirstN(history, HistoryCap)

\* a cap of an odd number of messages
TruncateOdd(history) == LastN(history, HistoryCap - 1)

\* conversation_history[-10:]
Truncate(history) == LastN(history, HistoryCap)

Put(f, k, val) == [x \in DOMAIN f \cup {k} |-> IF x = k THEN val ELSE f[x]]

\* thread_context.setdefault(thread_ts, value): the first writer's value stays
WriteBackIfAbsent(tc, t, ref) == IF t \in DOMAIN tc THEN tc ELSE Put(tc, t, ref)

\* a store with one slot: every thread is given the value
WriteBackAll(tc, t, ref) == [x \in DOMAIN tc \cup {t} |-> ref]

\* thread_context[thread_ts] = value
WriteBack(tc, t, ref) == Put(tc, t, ref)

\* a list object that does not exist yet
NewRef(hp) == CHOOSE r \in 1..(Cardinality(DOMAIN hp) + 1) : r \notin DOMAIN hp

\* the list objects something still refers to
Collect(hp, tc, pr) ==
    LET live == {tc[t] : t \in DOMAIN tc} \cup {pr[w].hist : w \in Workers}
    IN  [r \in DOMAIN hp \cap live |-> hp[r]]

\* the history the store holds for a thread: thread_context.get(t, [])
Stored(t) == IF t \in DOMAIN thread_context THEN heap[thread_context[t]] ELSE <<>>

\* A handler invocation.  pc: "idle", "get" (before the lookup), "ask" (before
\* ask_agent), "render" (before the answer is posted), "save_user", "save_asst",
\* "store" (before the three statements that save the history), "done"
\* (returned).  hist is conversation_history, a reference into heap.  outcome is
\* how ask_agent ended, slack_raised whether a call to Slack raised while the
\* answer was posted, h0 the history the store held at the lookup.  agent is
\* the selector ask_agent was called with, url the agent its URL names, sent
\* the messages of its payload.
IdleProc ==
    [pc |-> "idle", kind |-> "-", thread |-> "-", question |-> <<>>, hist |-> 0,
     outcome |-> "-", answer |-> <<>>, slack_raised |-> FALSE, h0 |-> <<>>,
     agent |-> "-", url |-> "-", sent |-> <<>>]

Active(w) == procs[w].pc \notin {"idle", "done"}
Quiet(t) == \A w \in Workers : procs[w].thread = t => ~Active(w)

\* What a thread was asked and answered, read off the handlers' inputs:
\*   asked    question and answer of every round trip whose answer was posted
\*   failed   a round trip on the thread got the error dict from ask_agent
\*   overlapped  two handlers were at work on the thread at once
\*   raced    a handler saved while another had looked up and not yet saved
\*   writes   the questions of the handlers that saved, in the order they saved
\*   written  the list the last of them had in hand, cut to the last HistoryCap
NewLog ==
    [t \in Threads |-> [asked |-> <<>>, failed |-> FALSE, overlapped |-> FALSE,
                        raced |-> FALSE, writes |-> <<>>, written |-> <<>>]]

InitChatVars ==
    /\ thread_context = EmptyMap
    /\ heap = EmptyMap
    /\ procs = [w \in Workers |-> IdleProc]
    /\ trips = 0
    /\ log = NewLog
    /\ deploy = Undeployed

streamIdle == <<st, now, obs, deploy>>

\* a Slack timestamp no thread of the store and no running handler has
Fresh(t) == t \notin DOMAIN thread_context /\ \A w \in Workers : procs[w].thread # t

Begin(w, kind, t) ==
    /\ procs' = [procs EXCEPT ![w] = [IdleProc EXCEPT !.pc = "get", !.kind = kind, !.thread = t,
                                                      !.question = Question(trips + 1)]]
    /\ trips' = trips + 1
    /\ log' = [log EXCEPT ![t].overlapped = @ \/ \E v \in Workers \ {w} : procs[v].thread = t /\ Active(v)]
    /\ UNCHANGED <<thread_context, heap, streamIdle>>

\* handle_message up to say("Analyzing..."): the message is ignored unless it
\* is a direct message, mentions the bot, or replies in a thread of the store.
\* msg.ts is message.get('thread_ts') or message.get('ts').
Messages == [bot : BOOLEAN, im : BOOLEAN, mention : BOOLEAN, in_thread : BOOLEAN, ts : Threads]

\* a filter that takes every reply in a thread for one of the bot's threads
AnsweredInAnyThread(msg) ==
    /\ ~msg.bot
    /\ msg.im \/ msg.mention \/ msg.in_thread

Answered(msg) ==
    /\ ~msg.bot
    /\ msg.im \/ msg.mention \/ (msg.in_thread /\ msg.ts \in DOMAIN thread_context)

HandleMessage(w, msg, max) ==
    /\ procs[w].pc = "idle"
    /\ trips < max
    /\ msg.in_thread \/ Fresh(msg.ts)
    /\ IF Answered(msg)
       THEN Begin(w, "message", msg.ts)
       ELSE UNCHANGED vars

\* handle_ask_acme up to say("Analyzing..."): the thread is the message the
\* handler has just posted
HandleAskAcme(w, t, max) ==
    /\ procs[w].pc = "idle"
    /\ trips < max
    /\ Fresh(t)
    /\ Begin(w, "ask_acme", t)

\* conversation_history = thread_context.get(thread_ts, [])
Lookup(w) ==
    /\ procs[w].pc = "get"
    /\ LET t == procs[w].thread
           ref == IF t \in DOMAIN thread_context THEN thread_context[t] ELSE NewRef(heap)
       IN  /\ heap' = IF t \in DOMAIN thread_context THEN heap ELSE Put(heap, ref, <<>>)
           /\ procs' = [procs EXCEPT ![w].pc = "ask", ![w].hist = ref, ![w].h0 = Stored(t)]
    /\ UNCHANGED <<thread_context, trips, log, streamIdle>>

\* ask_agent run to its end over a whole stream, with the handler's callback
RECURSIVE RunLines(_, _)
RunLines(s, lines) ==
    IF lines = <<>> THEN s ELSE RunLines(ProcessLine(s, Head(lines), 0), Tail(lines))

RunStream(lines, cb) == RunLines([NewFrame(cb) EXCEPT !.phase = "streaming"], lines).result

ChatStreams ==
    {<<>>,
     <<EventLineOf("response.text.delta"), DataLineOf(Obj([text |-> <<"x">>])),
       DataLineOf(Invalid), DataLineOf(Obj([text |-> <<"y">>]))>>}

\* how ask_agent ended: requests.post or raise_for_status raised, or the stream
\* was consumed (a stream that breaks mid-way returns the same dict as a failed post)
Outcomes == {"post_failed", "complete"}

\* the payload's messages with the question before the history
OutboundMessagesQuestionFirst(conversation_history, question) ==
    <<UserMsg(question)>> \o conversation_history

\* messages = []; messages.extend(conversation_history); messages.append({"role": "user", ...})
OutboundMessages(conversation_history, question) ==
    conversation_history \o <<UserMsg(question)>>

\* result = ask_agent(question, "intelligence", conversation_history=..., progress_callback=...)
AskAgent(w) ==
    /\ procs[w].pc = "ask"
    /\ \E outcome \in Outcomes :
         \E lines \in IF outcome = "complete" THEN ChatStreams ELSE {<<>>} :
            LET result == IF outcome = "complete" THEN RunStream(lines, "smart") ELSE ErrorResult
            IN  procs' = [procs EXCEPT ![w].pc = "render", ![w].outcome = outcome,
                                       ![w].answer = result.answer,
                                       ![w].agent = "intelligence",
                                       ![w].url = AgentName("intelligence"),
                                       ![w].sent = OutboundMessages(heap[procs[w].hist],
                                                                    procs[w].question)]
    /\ UNCHANGED <<thread_context, heap, trips, log, streamIdle>>

\* if not result["answer"]: return say("No response received...") -- handle_ask_acme only
SkipsSave(kind, answer) == kind = "ask_acme" /\ answer = <<>>

\* from the return of ask_agent to the first append: blocks, say(blocks=...),
\* chart and CSV uploads.  A call to Slack that raises ends the handler in its
\* except clause.
Render(w) ==
    /\ procs[w].pc = "render"
    /\ \E slack_raised \in BOOLEAN :
         LET p == procs[w]
             t == p.thread
         IN  IF SkipsSave(p.kind, p.answer) \/ slack_raised
             THEN /\ procs' = [procs EXCEPT ![w].pc = "done",
                                            ![w].slack_raised = slack_raised /\ ~SkipsSave(p.kind, p.answer)]
                  /\ log' = [log EXCEPT ![t].failed = @ \/ p.outcome # "complete"]
             ELSE /\ procs' = [procs EXCEPT ![w].pc = "save_user"]
                  /\ log' = [log EXCEPT ![t].failed = @ \/ p.outcome # "complete",
                                        ![t].asked = IF p.outcome = "complete"
                                                     THEN @ \o <<UserMsg(p.question), AssistantMsg(p.answer)>>
                                                     ELSE @]
    /\ UNCHANGED <<thread_context, heap, trips, streamIdle>>

\* conversation_history.append({"role": "user", ...})
AppendUser(w) ==
    /\ procs[w].pc = "save_user"
    /\ heap' = [heap EXCEPT ![procs[w].hist] = Append(@, UserMsg(procs[w].question))]
    /\ procs' = [procs EXCEPT ![w].pc = "save_asst"]
    /\ UNCHANGED <<thread_context, trips, log, streamIdle>>

\* conversation_history.append({"role": "assistant", ...})
AppendAssistant(w) ==
    /\ procs[w].pc = "save_asst"
    /\ heap' = [heap EXCEPT ![procs[w].hist] = Append(@, AssistantMsg(procs[w].answer))]
    /\ procs' = [procs EXCEPT ![w].pc = "store"]
    /\ UNCHANGED <<thread_context, trips, log, streamIdle>>

\* thread_context[thread_ts] = conversation_history[-10:], and the handler returns
Store(w) ==
    /\ procs[w].pc = "store"
    /\ LET p == procs[w]
           t == p.thread
           ref == NewRef(heap)
           others == {v \in Workers \ {w} :
                        procs[v].thread = t
                        /\ procs[v].pc \in {"ask", "render", "save_user", "save_asst", "store"}}
       IN  /\ thread_context' = WriteBack(thread_context, t, ref)
           /\ procs' = [procs EXCEPT ![w].pc = "done"]
           /\ heap' = Collect(Put(heap, ref, Truncate(heap[p.hist])), thread_context', procs')
           /\ log' = [log EXCEPT ![t].raced = @ \/ others # {},
                                 ![t].writes = Append(@, p.question),
                                 ![t].written = LastN(heap[p.hist], HistoryCap)]
    /\ UNCHANGED <<trips, streamIdle>>

\* the listener thread is free again
Return(w) ==
    /\ procs[w].pc = "done"
    /\ procs' = [procs EXCEPT ![w] = IdleProc]
    /\ heap' = Collect(heap, thread_context, procs')
    /\ UNCHANGED <<thread_context, trips, log, streamIdle>>

\* --- handlers running side by side in the listener pool
InitChat ==
    /\ st = NewFrame("none")
    /\ obs = NewObs("none")
    /\ now = 0
    /\ InitChatVars

NextChat ==
    \E w \in Workers :
        \/ \E msg \in Messages : HandleMessage(w, msg, MaxTrips)
        \/ \E t \in Threads : HandleAskAcme(w, t, MaxTrips)
        \/ Lookup(w)
        \/ AskAgent(w)
        \/ Render(w)
        \/ AppendUser(w)
        \/ AppendAssistant(w)
        \/ Store(w)
        \/ Return(w)

SpecChat == InitChat /\ [][NextChat]_vars

\* --- one handler at a time, on one thread
SeqThreads == {"t1"}

NextSeq ==
    \/ \E msg \in {m \in Messages : m.ts \in SeqThreads} : HandleMessage("w1", msg, MaxSeqTrips)
    \/ \E t \in SeqThreads : HandleAskAcme("w1", t, MaxSeqTrips)
    \/ Lookup("w1")
    \/ AskAgent("w1")
    \/ Render("w1")
    \/ AppendUser("w1")
    \/ AppendAssistant("w1")
    \/ Store("w1")
    \/ Return("w1")

SpecSeq == InitChat /\ [][NextSeq]_vars

\* --- ask(), the plain function, called between the handler runs
Selectors == AgentKeys \cup {"sales", "", NoneStr}

\* agent_key = agent if agent else "intelligence"
AgentKey(agent) == IF agent \in {"", NoneStr} THEN "intelligence" ELSE agent

\* a default that is a list kept from one call to the next
DefaultHistoryKept == <<UserMsg(Question(0))>>

\* conversation_history: list = None, the default ask() leaves in place
DefaultHistory == <<>>

\* ask(question, agent): ask_agent(question, agent_key) with no history and no
\* callback, and the answer of its result returned
Ask(w, agent, max) ==
    /\ procs[w].pc = "idle"
    /\ trips < max
    /\ trips' = trips + 1
    /\ \E outcome \in Outcomes :
         \E lines \in IF outcome = "complete" THEN ChatStreams ELSE {<<>>} :
            LET result == IF outcome = "complete" THEN RunStream(lines, "none") ELSE ErrorResult
                question == Question(trips + 1)
            IN  procs' = [procs EXCEPT ![w] = [IdleProc EXCEPT
                              !.pc = "done", !.kind = "ask", !.question = question,
                              !.outcome = outcome, !.answer = result.answer,
                              !.agent = AgentKey(agent), !.url = AgentName(AgentKey(agent)),
                              !.sent = OutboundMessages(DefaultHistory, question)]]
    /\ UNCHANGED <<thread_context, heap, log, streamIdle>>

NextApi ==
    \/ NextSeq
    \/ \E agent \in Selectors : Ask("w1", agent, MaxSeqTrips)

SpecApi == InitChat /\ [][NextApi]_vars

\* --- the accumulator under every kind of line
StreamPayloads ==
    TextPayloads \cup TablePayloads \cup ChartPayloads \cup MetaPayloads \cup ToolPayloads
      \cup TracePayloads \cup StatusPayloads({<<"Planning...">>, <<>>}) \cup {Num}

InitStream ==
    /\ \E cb \in Callbacks : st = NewFrame(cb) /\ obs = NewObs(cb)
    /\ now = 0
    /\ InitChatVars

NextStream ==
    \/ Post
    \/ ResponseOk
    \/ PostFails
    \/ \E e \in EventTypes : EventLine(e)
    \/ \E data \in StreamPayloads : DataLn(data)
    \/ BadDataLine
    \/ BlankLine
    \/ StreamEnd
    \/ StreamFails

SpecStream == InitStream /\ [][NextStream]_vars

\* --- one round trip over a stream of text, which the transport ends or breaks
\* after MaxLines lines at the latest
NextTrip ==
    \/ Post
    \/ ResponseOk
    \/ PostFails
    \/ EventLine("response.text.delta")
    \/ \E data \in TextPayloads : DataLn(data)
    \/ BadDataLine
    \/ StreamEnd
    \/ StreamFails

SpecTrip == InitStream /\ [][NextTrip]_vars /\ WF_vars(NextTrip)

\* --- tool results, traces and tables, with queries that may be empty
QueryPayloads ==
    ToolPayloads \cup TracePayloads \cup TablePayloads \cup
    {Obj([type |-> AnalystTool, content |-> <<[json |-> [sql |-> ""]]>>]),
     Obj([tool_type |-> AnalystTool,
          content |-> <<[text |-> "t"], [json |-> [sql |-> "SQL2", result_set |-> RS2]]>>]),
     Obj([result_set |-> RSList]),
     Arr(<<[parses |-> FALSE, attributes |-> <<>>],
           [parses |-> TRUE, attributes |-> <<[key |-> "other", stringValue |-> "v"],
                                              [key |-> SqlKey, stringValue |-> ""]>>]>>)}

InitQueries ==
    /\ st = NewFrame("none") /\ obs = NewObs("none")
    /\ now = 0
    /\ InitChatVars

NextQueries ==
    \/ Post
    \/ ResponseOk
    \/ \E e \in {"response.tool_result", "execution_trace", "response.table"} : EventLine(e)
    \/ \E data \in QueryPayloads : DataLn(data)
    \/ StreamEnd

SpecQueries == InitQueries /\ [][NextQueries]_vars

\* --- status events while the clock runs, with a handler's callback installed
InitProgress ==
    /\ st = NewFrame("smart") /\ obs = NewObs("smart")
    /\ now = 0
    /\ InitChatVars

NextProgress ==
    \/ Post
    \/ ResponseOk
    \/ EventLine("response.status")
    \/ \E data \in StatusPayloads(StatusMsgs) : DataLn(data)
    \/ Tick
    \/ StreamEnd

SpecProgress == InitProgress /\ [][NextProgress]_vars

\* ------------------------------------------ deploy_acme_intelligence.py
\* The commands main() hands to run_command, in the order of the text, named
\* by their step.  pc is the step main() is about to take; ran lists the
\* commands handed to run_command so far, failed those that returned a
\* non-zero code; files holds the temporary and left-over files present in the
\* working directory; exit is the status the process ended with.
Commands ==
    <<"infrastructure", "sample_data", "upload", "dbt_deps", "dbt_run",
      "agent", "permissions", "validation">>

TempFile == "temp_permissions.sql"

CleanupFiles ==
    {"cleanup_and_setup_role.sql",
     "snowflake_agents/acme_intelligence_agent_with_role.sql",
     "snowflake_agents/acme_intelligence_agent.sql"}

scriptIdle == <<st, now, obs, thread_context, heap, procs, trips, log>>

\* run_command(cmd, description) with the command's outcome ok: returns ok
RunCommand(d, cmd, ok) ==
    [d EXCEPT !.ran = Append(@, cmd),
              !.failed = IF ok THEN @ ELSE @ \cup {cmd}]

\* sys.exit(1)
SysExit(d) == [d EXCEPT !.pc = "exited", !.exit = 1]

\* the script is started in a directory that has the project folder or not,
\* and some of the left-over files
Launch(has_dir, files) ==
    /\ deploy.pc = "off"
    /\ deploy' = [deploy EXCEPT !.pc = "check", !.has_dir = has_dir, !.files = files]
    /\ UNCHANGED scriptIdle

\* if not Path("acme_intelligence").exists(): sys.exit(1)
CheckDirectory ==
    /\ deploy.pc = "check"
    /\ deploy' = IF deploy.has_dir THEN [deploy EXCEPT !.pc = "infrastructure"]
                                   ELSE SysExit(deploy)
    /\ UNCHANGED scriptIdle

\* if not run_command(...): sys.exit(1)
SetupInfrastructure(ok) ==
    /\ deploy.pc = "infrastructure"
    /\ deploy' = LET d == RunCommand(deploy, "infrastructure", ok)
                 IN  IF ok THEN [d EXCEPT !.pc = "sample_data"] ELSE SysExit(d)
    /\ UNCHANGED scriptIdle

GenerateSampleData(ok) ==
    /\ deploy.pc = "sample_data"
    /\ deploy' = LET d == RunCommand(deploy, "sample_data", ok)
                 IN  IF ok THEN [d EXCEPT !.pc = "upload"] ELSE SysExit(d)
    /\ UNCHANGED scriptIdle

\* an upload step written like the later ones: a warning, and on to dbt
UploadDocumentsContinues(ok) ==
    /\ deploy.pc = "upload"
    /\ deploy' = [RunCommand(deploy, "upload", ok) EXCEPT !.pc = "dbt_deps"]
    /\ UNCHANGED scriptIdle

UploadDocuments(ok) ==
    /\ deploy.pc = "upload"
    /\ deploy' = LET d == RunCommand(deploy, "upload", ok)
                 IN  IF ok THEN [d EXCEPT !.pc = "dbt_deps"] ELSE SysExit(d)
    /\ UNCHANGED scriptIdle

\* for cmd, description in dbt_commands: if not run_command(...): print(...)
DbtDeps(ok) ==
    /\ deploy.pc = "dbt_deps"
    /\ deploy' = [RunCommand(deploy, "dbt_deps", ok) EXCEPT !.pc = "dbt_run"]
    /\ UNCHANGED scriptIdle

DbtRun(ok) ==
    /\ deploy.pc = "dbt_run"
    /\ deploy' = [RunCommand(deploy, "dbt_run", ok) EXCEPT !.pc = "agent"]
    /\ UNCHANGED scriptIdle

\* if not run_command(...): print(...)
DeployAgent(ok) ==
    /\ deploy.pc = "agent"
    /\ deploy' = [RunCommand(deploy, "agent", ok) EXCEPT !.pc = "permissions"]
    /\ UNCHANGED scriptIdle

\* the file is written, the command run, and the file removed if it succeeded
UpdatePermissions(ok) ==
    /\ deploy.pc = "permissions"
    /\ deploy' = LET d == RunCommand([deploy EXCEPT !.files = @ \cup {TempFile}],
                                     "permissions", ok)
                 IN  [d EXCEPT !.pc = "validation",
                               !.files = IF ok THEN @ \ {TempFile} ELSE @]
    /\ UNCHANGED scriptIdle

Validate(ok) ==
    /\ deploy.pc = "validation"
    /\ deploy' = [RunCommand(deploy, "validation", ok) EXCEPT !.pc = "cleanup"]
    /\ UNCHANGED scriptIdle

\* for file in cleanup_files: if Path(file).exists(): os.remove(file); then the
\* closing prints and the return of main()
CleanUp ==
    /\ deploy.pc = "cleanup"
    /\ deploy' = [deploy EXCEPT !.pc = "done", !.exit = 0, !.files = @ \ CleanupFiles]
    /\ UNCHANGED scriptIdle

InitDeploy ==
    /\ st = NewFrame("none") /\ obs = NewObs("none")
    /\ now = 0
    /\ InitChatVars

NextDeploy ==
    \/ \E has_dir \in BOOLEAN, files \in SUBSET CleanupFiles : Launch(has_dir, files)
    \/ CheckDirectory
    \/ \E ok \in BOOLEAN : SetupInfrastructure(ok)
    \/ \E ok \in BOOLEAN : GenerateSampleData(ok)
    \/ \E ok \in BOOLEAN : UploadDocuments(ok)
    \/ \E ok \in BOOLEAN : DbtDeps(ok)
    \/ \E ok \in BOOLEAN : DbtRun(ok)
    \/ \E ok \in BOOLEAN : DeployAgent(ok)
    \/ \E ok \in BOOLEAN : UpdatePermissions(ok)
    \/ \E ok \in BOOLEAN : Validate(ok)
    \/ CleanUp

\* the script is one thread of control and each command returns: a step that
\* can be taken is taken
SpecDeploy == InitDeploy /\ [][NextDeploy]_vars /\ WF_vars(NextDeploy)


\* ------------------------------------------------------------------ claims
IsPrefix(a, b) == Len(a) <= Len(b) /\ SubSeq(b, 1, Len(a)) = a

Accumulating == st.phase \in {"streaming", "complete"}

\* C1: while a stream is processed, and in the result returned once it has
\* been consumed, the answer is the concatenation, in arrival order, of the text
\* fragments of the response.text.delta data lines, whatever else is interleaved;
\* each step of the loop leaves the old answer a prefix of the new one.
C1_AnswerIsConcatenation ==
    /\ [](Accumulating => st.result.answer = obs.deltas)
    /\ [][st.phase = "streaming" /\ st'.phase \in {"streaming", "complete"}
            => IsPrefix(st.result.answer, st'.result.answer)]_vars

\* a response.table event arrived between two fragments, and both are in the answer
C1_Witness ==
    /\ st.phase = "complete"
    /\ st.result.answer = <<"x", "y">>
    /\ \E i \in DOMAIN obs.tables : obs.tables[i].src = "table" /\ obs.tables[i].at = 1

\* C7 (as claimed): when two response.table events carrying distinct result
\* sets are the only source of tabular data, the returned result_set and
\* column_names are those of the first event.
C7_FirstTableWins ==
    (/\ st.phase = "complete"
     /\ Len(obs.tables) = 2
     /\ \A i \in 1..2 : obs.tables[i].src = "table"
     /\ obs.tables[1].rs # obs.tables[2].rs)
    => /\ st.result.result_set = obs.tables[1].rs
       /\ st.result.column_names = ColumnNames(obs.tables[1].rs)

\* C8: a data line that is not valid JSON, or a line with neither prefix,
\* leaves the whole frame as it was, the loop goes on, and the frame is at all
\* times the frame of the run over the same lines without the discarded ones.
C8_DiscardedLinesChangeNothing ==
    /\ [](Accumulating => [st EXCEPT !.phase = "streaming"] = obs.shadow)
    /\ [][Len(obs'.dropped) = Len(obs.dropped) + 1 => st' = st]_vars

\* a discarded line arrived between two text fragments that both reached the answer
C8_Witness ==
    /\ st.phase = "complete"
    /\ \E i \in DOMAIN obs.dropped : obs.dropped[i] = 1
    /\ st.result.answer = <<"x", "y">>

\* C9: chart_specs holds one entry {spec, tool_use_id, content_index} per
\* response.chart data line whose chart_spec parses, in arrival order; a
\* response.chart line whose chart_spec does not parse changes nothing of the
\* result but the count of raw events.
C9_ChartSpecsIsolated ==
    /\ [](Accumulating => st.result.chart_specs = obs.charts)
    /\ [][(/\ obs'.n = obs.n + 1
           /\ obs.etype = "response.chart"
           /\ obs'.badcharts = obs.badcharts + 1)
            => st'.result = [st.result EXCEPT !.raw_events = @ + 1]]_vars

\* one chart event that parses and one that does not: a single entry
C9_Witness ==
    /\ st.phase = "complete"
    /\ obs.badcharts = 1
    /\ Len(st.result.chart_specs) = 1
    /\ st.result.chart_specs[1].spec = Obj([mark |-> "bar"])


\* C2 (as claimed): a handler that found a history stored for its thread and
\* whose ask_agent failed before any event arrived returns with the store
\* holding for the thread the history it held at the lookup.
C2_FailedTripLeavesHistory ==
    \A w \in Workers :
        procs[w].pc = "done" /\ procs[w].outcome = "post_failed" /\ procs[w].h0 # <<>>
            => Stored(procs[w].thread) = procs[w].h0

\* C3: when the round trips of a thread ran one after another and none of them
\* failed in ask_agent, the store holds for the thread the last
\* min(2k, HistoryCap) messages of q1, a1, ..., qk, ak, the pairs answered so far.
C3_HistoryIsLastTen ==
    \A t \in Threads :
        Quiet(t) /\ ~log[t].failed /\ ~log[t].overlapped
            => /\ Stored(t) = LastN(log[t].asked, HistoryCap)
               /\ Len(Stored(t)) = IF Len(log[t].asked) < HistoryCap THEN Len(log[t].asked) ELSE HistoryCap

\* six pairs were answered: ten messages are stored and the first pair is gone
C3_Witness ==
    \E t \in Threads :
        /\ Quiet(t) /\ ~log[t].failed /\ ~log[t].overlapped
        /\ Len(log[t].asked) = 12
        /\ Len(Stored(t)) = 10
        /\ Stored(t)[1] = log[t].asked[3]
        /\ \A i \in 1..10 : Stored(t)[i] \notin {log[t].asked[1], log[t].asked[2]}

Tokens == {"x", "y"} \cup {ErrorText[i] : i \in DOMAIN ErrorText}
IsText(a) == a \in Seq(Tokens)

\* C4: whatever happens inside requests.post or the loop, ask_agent ends by
\* returning: a failure leaves the error dict, whose answer is the error text,
\* and the answer returned is text on every path.
C4_FailuresBecomeResults ==
    /\ [](st.phase \in {"idle", "connecting", "streaming", "complete", "failed"})
    /\ [](st.phase = "failed" => st.result = ErrorResult)
    /\ [](st.phase \in {"complete", "failed"} => IsText(st.result.answer))
    /\ [][st.phase \in {"connecting", "streaming"}
            => st'.phase \in {"streaming", "complete", "failed"}]_vars

\* the stream broke after lines had been consumed, and the error text came back
C4_Witness ==
    /\ st.phase = "failed"
    /\ obs.deltas # <<>>
    /\ st.result.answer = ErrorText

\* C5: once the handlers of a thread have returned, the store holds for the
\* thread what the handler that saved last wrote: its own list, cut to the last
\* HistoryCap messages.
C5_LastWriterWins ==
    \A t \in Threads :
        Quiet(t) /\ log[t].writes # <<>> => Stored(t) = log[t].written

\* two handlers looked the thread up before either saved: the question of the
\* one that saved first is not in the store, that of the other is
C5_Witness ==
    \E t \in Threads :
        /\ Quiet(t) /\ log[t].raced
        /\ Len(log[t].writes) = 2
        /\ \A i \in DOMAIN Stored(t) : Stored(t)[i] # UserMsg(log[t].writes[1])
        /\ \E i \in DOMAIN Stored(t) : Stored(t)[i] = UserMsg(log[t].writes[2])

EndsWithPair(history, q, a) ==
    Len(history) >= 2 /\ LastN(history, 2) = <<UserMsg(q), AssistantMsg(a)>>

\* C6 (as claimed): a handler whose ask_agent consumed the stream to its end,
\* and whose calls to Slack all went through, returns with question and answer
\* at the end of the thread's stored history, empty answer included.
C6_CompleteIsSaved ==
    \A w \in Workers :
        procs[w].pc = "done" /\ procs[w].outcome = "complete" /\ ~procs[w].slack_raised
            => EndsWithPair(Stored(procs[w].thread), procs[w].question, procs[w].answer)


\* some word of the status holds a milestone keyword
ContainsMilestone(status) ==
    \E i \in DOMAIN status : IsMilestoneKey(Lower(status[i]))

\* C10 (as claimed): a status that holds a milestone keyword and differs from
\* the status before it is handed to chat_update by the step that consumes its
\* line, however little time has passed since the last update.
C10_MilestoneAlwaysForwarded ==
    [][(/\ obs'.nstatus = obs.nstatus + 1
        /\ ContainsMilestone(obs'.status)
        /\ obs'.status # obs.status)
            => st'.chat_updates = Append(st.chat_updates, obs'.status)]_vars


\* a data line with a status is consumed by this step
StatusStep == obs'.nstatus = obs.nstatus + 1

\* C11 (as claimed): of a run of equal statuses that hold no milestone keyword
\* the first is handed to chat_update, a repeat less than ThrottleSeconds after
\* the last update is not, and a repeat after that interval is.
C11_RepeatsAreThrottled ==
    [][(StatusStep /\ obs'.status # <<>> /\ ~ContainsMilestone(obs'.status))
            => LET forwarded == st'.chat_updates = Append(st.chat_updates, obs'.status)
                   kept == st'.chat_updates = st.chat_updates
               IN  /\ obs'.status # obs.status => forwarded
                   /\ obs'.status = obs.status /\ now - st.last_update < ThrottleSeconds => kept
                   /\ obs'.status = obs.status /\ now - st.last_update >= ThrottleSeconds => forwarded]_vars


\* C12 (as claimed): no status is passed to the callback twice.  chat_update
\* is called by the callback alone, with the status it was passed, so no
\* status is handed to chat_update twice either.
C12_OncePerDistinctStatus ==
    \A i, j \in DOMAIN st.chat_updates :
        i # j => st.chat_updates[i] # st.chat_updates[j]


\* C13: the messages a handler's ask_agent sends are the history the store
\* holds for the thread, in order, followed by one user message with the
\* question (that message alone when the thread is not in the store: the
\* lookup hands out an empty list), and the call leaves every list as it was.
C13_PayloadIsHistoryPlusQuestion ==
    [][\A w \in Workers :
         LET p == procs[w]
         IN  /\ (p.pc = "get" /\ procs'[w].pc = "ask" /\ p.thread \notin DOMAIN thread_context)
                    => heap'[procs'[w].hist] = <<>>
             /\ (p.pc = "ask" /\ procs'[w].pc = "render")
                    => /\ procs'[w].sent = Stored(p.thread) \o <<UserMsg(p.question)>>
                       /\ p.thread \notin DOMAIN thread_context
                              => procs'[w].sent = <<UserMsg(p.question)>>
                       /\ heap' = heap
                       /\ thread_context' = thread_context]_vars

\* a reply in a thread with two pairs stored was sent as five messages
C13_Witness ==
    \E w \in Workers :
        /\ procs[w].pc = "render"
        /\ Len(Stored(procs[w].thread)) = 4
        /\ Len(procs[w].sent) = 5
        /\ SubSeq(procs[w].sent, 1, 4) = Stored(procs[w].thread)
        /\ procs[w].sent[5] = UserMsg(procs[w].question)


\* C14: a call of ask() is one round trip whose payload holds the question
\* alone; it holds no list of the store, leaves the store and every list as
\* they were, and returns the answer of ask_agent's result: the text of the
\* stream's fragments, or the error text.
C14_AskIsOneTripWithoutHistory ==
    [][\A w \in Workers :
         (procs[w].pc = "idle" /\ procs'[w].kind = "ask")
            => /\ procs'[w].pc = "done"
               /\ trips' = trips + 1
               /\ procs'[w].sent = <<UserMsg(procs'[w].question)>>
               /\ procs'[w].hist = 0
               /\ thread_context' = thread_context /\ heap' = heap
               /\ IF procs'[w].outcome = "complete"
                  THEN procs'[w].answer \in {<<>>, <<"x", "y">>}
                  ELSE procs'[w].answer = ErrorText]_vars

\* ask() returned an answer while the store held a history
C14_Witness ==
    \E w \in Workers :
        /\ procs[w].pc = "done" /\ procs[w].kind = "ask"
        /\ procs[w].answer = <<"x", "y">>
        /\ procs[w].sent = <<UserMsg(procs[w].question)>>
        /\ Len(Stored("t1")) >= 2


\* a step of the loop, or the return that ends it
LoopStep == st.phase = "streaming" /\ st'.phase \in {"streaming", "complete"}

\* C15 (as claimed): once a metadata event has set message_id or thread_id in
\* the result, no later line changes that field.
C15_IdentifiersFirstWins ==
    [][LoopStep =>
         /\ st.result.message_id # NoneStr => st'.result.message_id = st.result.message_id
         /\ st.result.thread_id # NoneStr => st'.result.thread_id = st.result.thread_id]_vars


\* C16: the result's sql is the first non-empty query that the analyst's tool
\* results and the execution traces carried, in arrival order (None, or an
\* empty string a tool result carried, while there was none); once it is
\* non-empty no later line changes it.
C16_SqlIsFirstNonEmptyQuery ==
    /\ [](Accumulating =>
            IF obs.sql1 = NoneStr THEN st.result.sql \in {NoneStr, ""}
            ELSE st.result.sql = obs.sql1)
    /\ [][LoopStep /\ st.result.sql \notin {NoneStr, ""}
            => st'.result.sql = st.result.sql]_vars

\* a trace carried SQL3 before a tool result carried SQL2 and a result set
C16_Witness ==
    /\ st.phase = "complete"
    /\ st.result.sql = "SQL3"
    /\ obs.sql1 = "SQL3"
    /\ \E i \in DOMAIN obs.tables : obs.tables[i].src = "tool" /\ obs.tables[i].rs = RS2


\* C17 (as claimed): when the result set in the result is the one a tool
\* result of the analyst tool carried, no later line changes result_set or
\* column_names.
C17_ToolTableIsKept ==
    [][(/\ LoopStep
        /\ obs.tables # <<>>
        /\ obs.tables[Len(obs.tables)].src = "tool")
            => /\ st'.result.result_set = st.result.result_set
               /\ st'.result.column_names = st.result.column_names]_vars


Terminal == st.phase \in {"complete", "failed"}

\* C18: a round trip goes from idle to connecting (the one POST), from there
\* to streaming or failed, from streaming to complete or failed; it never
\* goes back to idle or connecting, it reaches complete or failed, and then
\* takes no further step.
C18_RoundTripStateMachine ==
    /\ [][\/ st'.phase = st.phase /\ st.phase = "streaming"
          \/ st.phase = "idle" /\ st'.phase = "connecting"
          \/ st.phase = "connecting" /\ st'.phase \in {"streaming", "failed"}
          \/ st.phase = "streaming" /\ st'.phase \in {"complete", "failed"}]_vars
    /\ [][Terminal => UNCHANGED vars]_vars
    /\ <>Terminal

\* the stream was consumed to its end past a discarded line
C18_Witness ==
    /\ st.phase = "complete"
    /\ obs.n = 4 /\ Len(obs.dropped) = 1
    /\ st.result.answer = <<"x">>


\* C19: the agent the URL of a request names is the table's entry for the
\* selector ask_agent was called with, and ACME_INTELLIGENCE_AGENT for a
\* selector the table does not have; it is always one of the table's three.
C19_SelectorResolvesToTableAgent ==
    \A w \in Workers :
        procs[w].url # "-" =>
            /\ procs[w].url \in {"ACME_INTELLIGENCE_AGENT", "ACME_CONTRACTS_AGENT",
                                 "DATA_ENGINEER_ASSISTANT"}
            /\ procs[w].agent = "intelligence" => procs[w].url = "ACME_INTELLIGENCE_AGENT"
            /\ procs[w].agent = "contracts" => procs[w].url = "ACME_CONTRACTS_AGENT"
            /\ procs[w].agent = "perf" => procs[w].url = "DATA_ENGINEER_ASSISTANT"
            /\ procs[w].agent \notin {"intelligence", "contracts", "perf"}
                  => procs[w].url = "ACME_INTELLIGENCE_AGENT"

\* ask("...", "sales") was sent to the primary agent
C19_Witness ==
    \E w \in Workers :
        /\ procs[w].pc = "done" /\ procs[w].kind = "ask"
        /\ procs[w].agent = "sales"
        /\ procs[w].url = "ACME_INTELLIGENCE_AGENT"


\* C20 (as claimed): the list the store holds for a thread never has more
\* than HistoryCap messages, in the states inside a handler run too.
C20_StoredHistoryIsCapped ==
    \A t \in DOMAIN thread_context : Len(Stored(t)) <= HistoryCap


\* C21 (as claimed): the history the store holds for a thread changes only in
\* the step in which a handler of that thread writes back; what a handler does
\* between its lookup and that step leaves the stored history as it was.
C21_StoreChangesOnlyAtWriteBack ==
    [][\A t \in DOMAIN thread_context :
         \/ Stored(t)' = Stored(t)
         \/ \E w \in Workers : procs[w].thread = t /\ procs[w].pc = "store"]_vars


\* C22: a step of a handler leaves alone what the store holds for every
\* thread but the handler's own, whether the thread is in the store and the
\* history stored for it; and no list is in the hands of handlers of two
\* threads or stored for two threads.
C22_OtherThreadsUntouched ==
    /\ [][\A w \in Workers :
            procs'[w] # procs[w] =>
                \A b \in Threads \ {procs[w].thread, procs'[w].thread} :
                    /\ b \in DOMAIN thread_context' <=> b \in DOMAIN thread_context
                    /\ Stored(b)' = Stored(b)]_vars
    /\ [](\A v, w \in Workers :
            (procs[v].hist # 0 /\ procs[v].hist = procs[w].hist)
                => procs[v].thread = procs[w].thread)
    /\ [](\A a, b \in DOMAIN thread_context :
            thread_context[a] = thread_context[b] => a = b)

\* a failed round trip on one thread has saved while the other thread's
\* history was in the store
C22_Witness ==
    \E w \in Workers : \E b \in Threads :
        /\ procs[w].pc = "done" /\ procs[w].outcome = "post_failed"
        /\ procs[w].thread \in Threads \ {b}
        /\ Len(Stored(procs[w].thread)) = 2
        /\ Len(Stored(b)) = 2
        /\ Stored(b)[1].text # Stored(procs[w].thread)[1].text


\* C23: the event type the loop applies a data line under is the name on the
\* most recent "event: " line, however many data lines came since; a line
\* changes a field of the result only under an event type that feeds the field.
C23_AppliedUnderCurrentEventType ==
    /\ [](Accumulating => st.event_type = obs.etype)
    /\ [][LoopStep =>
            /\ st'.result.answer # st.result.answer => obs.etype = "response.text.delta"
            /\ st'.result.thinking # st.result.thinking => obs.etype = "response.thinking.delta"
            /\ st'.result.chart_specs # st.result.chart_specs => obs.etype = "response.chart"
            /\ (\/ st'.result.message_id # st.result.message_id
                \/ st'.result.thread_id # st.result.thread_id) => obs.etype = "metadata"
            /\ st'.result.sql # st.result.sql
                  => obs.etype \in {"response.tool_result", "execution_trace"}
            /\ st'.result.result_set # st.result.result_set
                  => obs.etype \in {"response.tool_result", "response.table"}]_vars

\* one event line, then a thinking fragment, a line that is not JSON and a
\* second thinking fragment
C23_Witness ==
    /\ st.phase = "streaming"
    /\ obs.n = 4 /\ Len(obs.dropped) = 1
    /\ st.result.thinking = <<"x", "y">>
    /\ st.result.answer = <<>>


\* C24 (as claimed): a response.table line whose result_set is not an object
\* is treated as carrying no data: apart from the count of raw events the
\* result is what it was before the line.
C24_MalformedShapeIsNoData ==
    [][(/\ LoopStep
        /\ obs.etype = "response.table"
        /\ Len(obs'.tables) = Len(obs.tables) + 1
        /\ obs'.tables[Len(obs'.tables)].rs.j # "object")
            => st'.result = [st.result EXCEPT !.raw_events = @ + 1]]_vars


LastForwarded == st.chat_updates[Len(st.chat_updates)]

\* C25: chat_update is called only by the step that consumes a line with a
\* status and a message, with that message, and only if the message differs
\* from the one forwarded last, holds a milestone keyword, or ThrottleSeconds
\* have passed since the last update; a message without a milestone keyword
\* that equals the one forwarded last is not forwarded within the interval.
C25_ForwardedOnlyWhenDue ==
    [][/\ st'.chat_updates # st.chat_updates =>
            /\ StatusStep
            /\ st'.chat_updates = Append(st.chat_updates, obs'.status)
            /\ \/ st.chat_updates = <<>>
               \/ obs'.status # LastForwarded
               \/ ContainsMilestone(obs'.status)
               \/ now - st.last_update >= ThrottleSeconds
       /\ (/\ StatusStep
           /\ st.chat_updates # <<>>
           /\ obs'.status = LastForwarded
           /\ ~ContainsMilestone(obs'.status)
           /\ now - st.last_update < ThrottleSeconds)
            => st'.chat_updates = st.chat_updates]_vars

\* "Running query" was forwarded at second 5 and, after another status, came
\* again at second 6 without being forwarded
C25_Witness ==
    /\ st.chat_updates = <<<<"Running", "query">>>>
    /\ st.last_update = 5 /\ now = 6
    /\ obs.status = <<"Running", "query">>
    /\ st.last_status = <<"Running", "query">>
    /\ obs.nstatus = 3


\* C26: when the handlers of a thread ran one after another and have
\* returned, the stored history has an even number of messages, which are by
\* turns a user's and the assistant's, the first a user's; and as long as
\* ask_agent did not fail, every two of them are a question and the answer that
\* was posted for it.  The cut to the last HistoryCap keeps pairs whole.
C26_HistoryAlternates ==
    \A t \in Threads :
        (Quiet(t) /\ ~log[t].overlapped) =>
            LET h == Stored(t)
                asked == log[t].asked
            IN  /\ Len(h) % 2 = 0
                /\ \A i \in DOMAIN h :
                     h[i].role = IF i % 2 = 1 THEN "user" ELSE "assistant"
                /\ ~log[t].failed =>
                     \A i \in DOMAIN h :
                        i % 2 = 1 => \E k \in DOMAIN asked :
                                        /\ k % 2 = 1
                                        /\ asked[k] = h[i]
                                        /\ asked[k + 1] = h[i + 1]

\* six round trips, one of them failed, left ten messages that begin with a
\* question
C26_Witness ==
    \E t \in Threads :
        /\ Quiet(t) /\ ~log[t].overlapped /\ log[t].failed
        /\ Len(Stored(t)) = HistoryCap
        /\ Stored(t)[1].role = "user"
        /\ Stored(t)[1].text # Question(1)
        /\ \E i \in DOMAIN Stored(t) : Stored(t)[i].text = ErrorText


\* C27: a line consumed before the first "event: " line leaves the frame of
\* the call as it was, but for the count of raw events when it is a data line
\* that parses: answer, thinking text, identifiers, query, result set, column
\* names, chart specs and tools used keep their values, the loop goes on, and
\* the event type is still unbound.  An event line and a data line that follow
\* are processed as they are at the start of a stream.
C27_BeforeFirstEventLine ==
    /\ [][(LoopStep /\ obs.etype = Unset /\ obs'.etype = Unset /\ obs'.n = obs.n + 1)
            => /\ st'.phase = "streaming"
               /\ \E k \in {0, 1} : st' = [st EXCEPT !.result.raw_events = @ + k]
               /\ [st'.result EXCEPT !.raw_events = 0] = NewResult]_vars
    /\ []((st.phase = "streaming" /\ obs.etype = Unset) =>
            \A e \in EventTypes, d \in StreamPayloads :
               LET after(s) == ProcessLine(ProcessLine(s, EventLineOf(e), now),
                                           DataLineOf(d), now)
                   fresh == [NewFrame(st.cb) EXCEPT !.phase = "streaming"]
               IN  [after(st) EXCEPT !.result.raw_events = 0]
                     = [after(fresh) EXCEPT !.result.raw_events = 0])

\* two data lines that parse were consumed before any event line
C27_Witness ==
    /\ st.phase = "streaming"
    /\ obs.etype = Unset
    /\ obs.n = 2
    /\ st.result.raw_events = 2
    /\ st.result.tools_used = <<>>
    /\ st.result.answer = <<>>


\* C28: when the callback raises on a status line (a status without a first
\* word), the loop goes on in the state it had before the line, but for the
\* raw event counted: no failure result, the closure of the callback and
\* last_status untouched, and what was accumulated is kept.
C28_CallbackFailureContained ==
    [][(st.phase = "streaming" /\ st.cb = "smart" /\ StatusStep /\ obs'.status = <<>>)
         => /\ st'.phase = "streaming"
            /\ st' = [st EXCEPT !.result.raw_events = @ + 1]]_vars

\* the callback raised on the one status line of a stream whose round trip
\* returned the answer of its two fragments
C28_Witness ==
    /\ st.phase = "complete"
    /\ st.cb = "smart"
    /\ obs.nstatus = 1
    /\ obs.status = <<>>
    /\ st.last_status = NoneMsg
    /\ st.chat_updates = <<>>
    /\ st.result.answer = <<"x", "y">>


\* C29: in every state, handle_message given a message that carries a bot_id,
\* or one that is no direct message, has no @mention and is no reply in a
\* thread whose id is in the store, changes nothing: no round trip is started
\* and thread_context is as it was.  A reply without @mention outside direct
\* messages starts a round trip exactly when its thread id is in the store.
C29_FilteredMessagesChangeNothing ==
    \A w \in Workers, msg \in Messages :
        /\ (msg.bot \/ (~msg.im /\ ~msg.mention
                          /\ ~(msg.in_thread /\ msg.ts \in DOMAIN thread_context)))
              => ~ENABLED <<HandleMessage(w, msg, MaxTrips)>>_vars
        /\ (~msg.bot /\ ~msg.im /\ ~msg.mention /\ msg.in_thread
              /\ ENABLED HandleMessage(w, msg, MaxTrips))
              => (ENABLED <<HandleMessage(w, msg, MaxTrips)>>_vars
                    <=> msg.ts \in DOMAIN thread_context)

\* a worker is free to handle a reply without @mention in either of two
\* threads, of which one is in the store: the reply in the stored thread starts
\* a round trip, the other is dropped
C29_Witness ==
    \E w \in Workers, a, b \in Threads :
        LET reply(t) == [bot |-> FALSE, im |-> FALSE, mention |-> FALSE,
                         in_thread |-> TRUE, ts |-> t]
        IN  /\ a \in DOMAIN thread_context
            /\ b \notin DOMAIN thread_context
            /\ ENABLED <<HandleMessage(w, reply(a), MaxTrips)>>_vars
            /\ ENABLED HandleMessage(w, reply(b), MaxTrips)
            /\ ~ENABLED <<HandleMessage(w, reply(b), MaxTrips)>>_vars


StopsOnFailure == {"infrastructure", "sample_data", "upload"}
GoesOnAfterFailure == {"dbt_deps", "dbt_run", "agent", "permissions", "validation"}

\* C30: the commands are run in the order of Commands, none left out, and
\* the left-over files are removed only once all eight were run; a failed
\* command of the first three steps is the last command run and the script ends
\* with status 1; a failed dbt command, agent deployment, permission update or
\* validation leads to the end of the script with all eight commands run, the
\* left-over files removed and status 0.
C30_StepOrder ==
    /\ [](IsPrefix(deploy.ran, Commands))
    /\ [](\A c \in StopsOnFailure :
             c \in deploy.failed =>
                /\ deploy.pc = "exited" /\ deploy.exit = 1
                /\ deploy.ran[Len(deploy.ran)] = c)
    /\ [][(deploy.pc # "off" /\ deploy'.files \cap CleanupFiles # deploy.files \cap CleanupFiles)
            => deploy.ran = Commands]_vars
    /\ \A c \in GoesOnAfterFailure :
          (c \in deploy.failed) ~>
              (deploy.pc = "done" /\ deploy.exit = 0 /\ deploy.ran = Commands
                 /\ deploy.files \cap CleanupFiles = {})

\* every command from dbt on but one failed, and the script went through to
\* the end, leaving the permission file it could not use
C30_Witness ==
    /\ deploy.pc = "done"
    /\ deploy.exit = 0
    /\ deploy.ran = Commands
    /\ deploy.failed = {"dbt_deps", "agent", "permissions", "validation"}
    /\ deploy.files = {TempFile}

====
